---- MODULE Spec2Model ----
(***************************************************************************)
(* Model of nle/scripts/play.py: the interactive session driver play(),    *)
(* its action resolver get_action() and the raw-terminal scope no_echo().  *)
(*                                                                         *)
(* The program is sequential.  pc is the position of the single thread in  *)
(* play() / get_action() / no_echo(); every action is one stretch of code  *)
(* between two calls into the outside world (environment, terminal).       *)
(* The environment, the terminal, the operator and the clock are outside   *)
(* the repository: their results are drawn from small sets, and each call  *)
(* into the environment may also raise.                                    *)
(*                                                                         *)
(* Real numbers (sps, means) are exact rationals <<num, den>>, den > 0,    *)
(* in lowest terms.                                                        *)
(***************************************************************************)
EXTENDS Integers, Sequences, FiniteSets, TLC

(* ------------------------------ bounds --------------------------------- *)
\* FLAGS.ngames ranges over 1..MaxGames
MaxGames == 2
\* FLAGS.max_steps ranges over 0..MaxStepsFlag
MaxStepsFlag == 2
\* os.read(0, 1) returns a byte in 0..MaxByte
MaxByte == 4
\* at most MaxPrompts rejected inputs are fed to one call of get_action
MaxPrompts == 2
\* timeit deltas range over 0..MaxDelta clock ticks
MaxDelta == 1
\* gym rewards range over 1..MaxReward
MaxReward == 3

(* --------------------------- program constants ------------------------- *)
\* nethack.C("c") == 0x1f & ord("c")
CtrlC == 3

\* _ACTIONS: the raw codes random mode draws from in the raw environment
\* (MiscAction.MORE, then the compass directions), as small codes
_ACTIONS == <<2, 1, 4>>

\* env._actions of the gym environment: the ordered, duplicate-free tuple of
\* raw codes whose positions are the indexed actions
EnvActions == <<4, 1>>

None == "None"
Bytes == 0..MaxByte

\* the environments report done at the latest after StepBound steps of an
\* episode: beyond every value of FLAGS.max_steps, so that the cap of line 146
\* always comes first
StepBound == MaxStepsFlag + 1

VARIABLES
    \* FLAGS and the variant
    mode, is_raw_env, ngames, max_steps, no_render,
    \* locals of play()
    pc, obs, done, steps, episodes, reward, action, mean_sps, mean_reward,
    \* locals of get_action() / no_echo()
    ch, tt, raised,
    \* the terminal and the environment
    term, termBefore, envObs,
    \* observers: calls made, what was displayed, the last done signal of the
    \* environment; prompts counts the retry prompts of the current call of
    \* get_action, nRead the bytes read in the session up to 2 (none, the
    \* first, more)
    nStep, nReset, nRender, nClose, prompts, nRead, interrupted, failure,
    stepCalls, doneCount, spsSum, rewardSum, shown, envDone

flags == <<mode, is_raw_env, ngames, max_steps, no_render>>
stats == <<steps, episodes, mean_sps, mean_reward>>
tty == <<ch, tt, raised, term, termBefore>>
envCalls == <<nStep, nReset, nRender, nClose>>
observers == <<prompts, nRead, interrupted, failure, stepCalls, doneCount,
               spsSum, rewardSum, shown, envDone>>
vars == <<flags, pc, obs, done, reward, action, stats, tty, envObs, envCalls,
          observers>>

(* ------------------------------ rationals ------------------------------ *)
Abs(n) == IF n < 0 THEN -n ELSE n

RECURSIVE GCD(_, _)
GCD(a, b) == IF b = 0 THEN a ELSE GCD(b, a % b)

\* d > 0
Norm(n, d) == LET g == GCD(Abs(n), d) IN <<n \div g, d \div g>>

Rat(n) == <<n, 1>>
RatAdd(a, b) == Norm(a[1] * b[2] + b[1] * a[2], a[2] * b[2])
RatSub(a, b) == Norm(a[1] * b[2] - b[1] * a[2], a[2] * b[2])
\* k > 0
RatDivInt(a, k) == Norm(a[1], a[2] * k)

(* -------------------------- pieces of the code -------------------------- *)
\* tuple.index taken as a 1-based position
IndexOfOneBased(t, x) == CHOOSE i \in 1..Len(t) :
                            t[i] = x /\ \A j \in 1..(i - 1) : t[j] # x

\* tuple.index(x): the first 0-based position of x; raises ValueError if absent
InTuple(t, x) == \E i \in 1..Len(t) : t[i] = x
IndexOf(t, x) == (CHOOSE i \in 1..Len(t) :
                     t[i] = x /\ \A j \in 1..(i - 1) : t[j] # x) - 1

\* the exit test comparing against ord("c") instead of nethack.C("c")
IsExitWrongCode(c) == c = 99

\* line 53: ch in [nethack.C("c")]
IsExit(c) == c = CtrlC

\* lines 56-62: whether mapping the byte raises ValueError
Rejected(c, raw) == IF raw THEN FALSE ELSE ~InTuple(EnvActions, c)

\* the byte handed on as the action in both variants
ResolveNoIndex(c, raw) == c

\* lines 57-60: the action a byte resolves to
Resolve(c, raw) == IF raw THEN c ELSE IndexOf(EnvActions, c)

\* no_echo saving the attributes after tty.setraw: the restore writes back
\* the raw mode
no_echo_exit_saved_late(saved, current, bodyRaised) == current

\* no_echo without try/finally: the restore is skipped when the body raises
no_echo_exit_no_finally(saved, current, bodyRaised) ==
    IF bodyRaised THEN current ELSE saved

\* lines 38-39: the finally clause of no_echo restores the saved attributes
\* whether or not the body raised
no_echo_exit(saved, current, bodyRaised) == saved

\* the step counted twice
NextStepsTwice(s) == s + 2

\* line 143
NextSteps(s) == s + 1

\* the cap tested with > instead of >=
DoneAfterStepLate(d, s, raw) == IF raw THEN d \/ s > max_steps
                                ELSE d

\* the cap applied in both variants
DoneAfterStepCapBoth(d, s, raw) == d \/ s >= max_steps

\* line 146 (raw) / line 142 (gym: done is what env.step returned)
DoneAfterStep(d, s, raw) == IF raw THEN d \/ s >= max_steps
                            ELSE d

\* the incremental mean without its division
IncMeanNoDivision(mean, x, n) == RatAdd(mean, RatSub(x, mean))

\* line 148 and line 164: incremental mean
IncMean(mean, x, n) == RatAdd(mean, RatDivInt(RatSub(x, mean), n))

\* line 163
NextEpisodes(e) == e + 1

\* the target tested one episode late
TargetReachedLate(e) == e = ngames + 1

\* line 171
TargetReached(e) == e = ngames

\* the action spaces of the two variants
ActionSpace(raw) == IF raw THEN {_ACTIONS[i] : i \in 1..Len(_ACTIONS)}
                    ELSE 0..(Len(EnvActions) - 1)

(* -------------------------------- Init --------------------------------- *)
\* the state of play() at line 95, before the first env.reset().  In the gym
\* variant FLAGS.max_steps is only handed to gym.make (line 87) and never read
\* again, so one value stands for all of them there.
Init ==
    /\ mode \in {"human", "random"}
    /\ is_raw_env \in BOOLEAN
    /\ ngames \in 1..MaxGames
    /\ max_steps \in (IF is_raw_env THEN 0..MaxStepsFlag ELSE {1})
    /\ no_render \in BOOLEAN
    /\ pc = "reset0"
    /\ obs = 0 /\ done = FALSE /\ steps = 0 /\ episodes = 0
    /\ reward = Rat(0) /\ action = None
    /\ mean_sps = Rat(0) /\ mean_reward = Rat(0)
    /\ ch = None /\ tt = None /\ raised = FALSE
    /\ termBefore = "cooked"
    /\ term = termBefore
    /\ envObs = 0
    /\ nStep = 0 /\ nReset = 0 /\ nRender = 0 /\ nClose = 0
    /\ prompts = 0 /\ nRead = 0 /\ interrupted = FALSE /\ failure = None
    /\ stepCalls = 0 /\ doneCount = 0
    /\ spsSum = Rat(0) /\ rewardSum = Rat(0)
    /\ shown = <<0, 0>>
    /\ envDone = FALSE

(* ------------------------------- actions ------------------------------- *)
\* lines 95-107: the first env.reset() and the initial values of the locals
Reset0 ==
    /\ pc = "reset0"
    /\ nReset' = nReset + 1
    /\ envObs' = envObs + 1
    /\ obs' = envObs'
    /\ done' = FALSE
    /\ steps' = 0 /\ episodes' = 0
    /\ reward' = Rat(0) /\ action' = None
    /\ mean_sps' = Rat(0) /\ mean_reward' = Rat(0)
    /\ pc' = "loop"
    /\ UNCHANGED <<flags, tty, nStep, nRender, nClose, observers>>

\* the display made on the first iteration of the session only
RenderFirstOnly ==
    /\ pc = "loop"
    /\ UNCHANGED envDone
    /\ IF no_render \/ nStep > 0
         THEN UNCHANGED <<nRender, shown>>
         ELSE IF is_raw_env
                THEN /\ shown' = <<obs, obs>>
                     /\ UNCHANGED nRender
                ELSE /\ shown' = <<envObs, obs>>
                     /\ nRender' = nRender + 1
    /\ pc' = "get_action"
    /\ UNCHANGED <<flags, obs, done, reward, action, stats, tty, envObs,
                   nStep, nReset, nClose, prompts, nRead, interrupted,
                   failure, stepCalls, doneCount, spsSum, rewardSum>>

\* lines 112-132: the display at the top of the loop.  The gym variant calls
\* env.render (the environment shows its own latest state) and prints
\* obs["blstats"]; the raw variant prints the fields of obs.
Render ==
    /\ pc = "loop"
    /\ UNCHANGED envDone
    /\ IF no_render
         THEN UNCHANGED <<nRender, shown>>
         ELSE IF is_raw_env
                THEN /\ shown' = <<obs, obs>>
                     /\ UNCHANGED nRender
                ELSE /\ shown' = <<envObs, obs>>
                     /\ nRender' = nRender + 1
    /\ pc' = "get_action"
    /\ UNCHANGED <<flags, obs, done, reward, action, stats, tty, envObs,
                   nStep, nReset, nClose, prompts, nRead, interrupted,
                   failure, stepCalls, doneCount, spsSum, rewardSum>>

\* lines 43-48 and 70: random mode
GetActionRandom ==
    /\ pc = "get_action"
    /\ mode = "random"
    /\ \E a \in ActionSpace(is_raw_env) : action' = a
    /\ pc' = "step"
    /\ UNCHANGED <<flags, obs, done, reward, stats, tty, envObs, envCalls,
                   observers>>

\* lines 50-51 and 34-36: entering no_echo, on the call of get_action or on
\* the retry after a rejected input
SetRaw ==
    /\ \/ pc = "get_action" /\ mode = "human"
       \/ pc = "retry"
    /\ tt' = term
    /\ term' = "raw"
    /\ pc' = "read"
    /\ UNCHANGED <<flags, obs, done, reward, action, stats, ch, raised,
                   termBefore, envObs, envCalls, observers>>

\* line 52: os.read(0, 1) returns one byte
ReadByte ==
    /\ pc = "read"
    /\ \E b \in Bytes :
         /\ (b # CtrlC /\ ~InTuple(EnvActions, b) /\ ~is_raw_env)
               => prompts < MaxPrompts
         /\ ch' = b
         /\ interrupted' = (interrupted \/ b = CtrlC)
    /\ nRead' = IF nRead < 2 THEN nRead + 1 ELSE nRead
    /\ pc' = "restore"
    /\ UNCHANGED <<flags, obs, done, reward, action, stats, tt, raised, term,
                   termBefore, envObs, envCalls, prompts, failure, stepCalls,
                   doneCount, spsSum, rewardSum, shown, envDone>>

\* line 52: the read raises (OSError, or ord() of the empty read at EOF)
ReadRaises ==
    /\ pc = "read"
    /\ raised' = TRUE
    /\ pc' = "restore"
    /\ UNCHANGED <<flags, obs, done, reward, action, stats, ch, tt, term,
                   termBefore, envObs, envCalls, observers>>

\* lines 38-39: leaving no_echo, normally or with the exception in flight
Restore ==
    /\ pc = "restore"
    /\ term' = no_echo_exit(tt, term, raised)
    /\ raised' = FALSE
    /\ IF raised
         THEN pc' = "failed" /\ failure' = "read"
         ELSE pc' = "map" /\ UNCHANGED failure
    /\ UNCHANGED <<flags, obs, done, reward, action, stats, ch, tt,
                   termBefore, envObs, envCalls, prompts, nRead, interrupted,
                   stepCalls, doneCount, spsSum, rewardSum, shown, envDone>>

\* the interrupted episode recorded like a finished one
ExitCodeCountsEpisode ==
    /\ pc = "map"
    /\ IsExit(ch)
    /\ action' = None
    /\ ch' = None
    /\ prompts' = 0
    /\ episodes' = episodes + 1
    /\ pc' = "close"
    /\ UNCHANGED <<flags, obs, done, reward, steps, mean_sps, mean_reward,
                   tt, raised, term, termBefore, envObs, envCalls, nRead,
                   interrupted, failure, stepCalls, doneCount, spsSum,
                   rewardSum, shown, envDone>>

\* lines 53-55 and 134-137: the exit code; get_action returns None and play
\* breaks out of its loop
ExitCode ==
    /\ pc = "map"
    /\ IsExit(ch)
    /\ action' = None
    /\ ch' = None
    /\ prompts' = 0
    /\ pc' = "close"
    /\ UNCHANGED <<flags, obs, done, reward, stats, tt, raised, term,
                   termBefore, envObs, envCalls, nRead, interrupted, failure,
                   stepCalls, doneCount, spsSum, rewardSum, shown, envDone>>

\* lines 56-61 and 70: the byte maps to an action
MapAccept ==
    /\ pc = "map"
    /\ ~IsExit(ch)
    /\ ~Rejected(ch, is_raw_env)
    /\ action' = Resolve(ch, is_raw_env)
    /\ ch' = None
    /\ prompts' = 0
    /\ pc' = "step"
    /\ UNCHANGED <<flags, obs, done, reward, stats, tt, raised, term,
                   termBefore, envObs, envCalls, nRead, interrupted, failure,
                   stepCalls, doneCount, spsSum, rewardSum, shown, envDone>>

\* the rejected input counted as a step
MapRejectCountsStep ==
    /\ pc = "map"
    /\ ~IsExit(ch)
    /\ Rejected(ch, is_raw_env)
    /\ prompts' = prompts + 1
    /\ steps' = steps + 1
    /\ pc' = "retry"
    /\ UNCHANGED <<flags, obs, done, reward, action, episodes, mean_sps,
                   mean_reward, tty, envObs, envCalls, nRead, interrupted,
                   failure, stepCalls, doneCount, spsSum, rewardSum, shown,
                   envDone>>

\* lines 62-69: ValueError; one retry prompt, then back to line 50
MapReject ==
    /\ pc = "map"
    /\ ~IsExit(ch)
    /\ Rejected(ch, is_raw_env)
    /\ prompts' = prompts + 1
    /\ pc' = "retry"
    /\ UNCHANGED <<flags, obs, done, reward, action, stats, tty, envObs,
                   envCalls, nRead, interrupted, failure, stepCalls,
                   doneCount, spsSum, rewardSum, shown, envDone>>

\* lines 139-151: env.step returns, the step is counted, done is settled
Step ==
    /\ pc = "step"
    /\ \E d \in BOOLEAN, r \in 1..MaxReward :
         /\ (steps + 1 >= StepBound) => d
         /\ is_raw_env => r = 1
         /\ envDone' = d
         /\ steps' = NextSteps(steps)
         /\ done' = DoneAfterStep(d, steps', is_raw_env)
         /\ IF is_raw_env
              THEN UNCHANGED <<reward, mean_reward, rewardSum>>
              ELSE /\ reward' = Rat(r)
                   /\ mean_reward' = IncMean(mean_reward, Rat(r), steps')
                   /\ rewardSum' = RatAdd(rewardSum, Rat(r))
    /\ nStep' = nStep + 1
    /\ stepCalls' = stepCalls + 1
    /\ envObs' = envObs + 1
    /\ obs' = envObs'
    /\ doneCount' = IF done' THEN doneCount + 1 ELSE doneCount
    /\ pc' = IF done' THEN "record" ELSE "loop"
    /\ UNCHANGED <<flags, action, episodes, mean_sps, tty, nReset, nRender,
                   nClose, prompts, nRead, interrupted, failure, spsSum,
                   shown>>

\* lines 153-172 with line 164 dividing by the episode count plus one
RecordMeanOffByOne ==
    /\ pc = "record"
    /\ \E time_delta \in 1..MaxDelta :
         LET sps == Norm(steps, time_delta) IN
           /\ episodes' = NextEpisodes(episodes)
           /\ mean_sps' = IncMean(mean_sps, sps, episodes' + 1)
           /\ spsSum' = RatAdd(spsSum, sps)
    /\ steps' = 0
    /\ mean_reward' = Rat(0)
    /\ stepCalls' = 0
    /\ rewardSum' = Rat(0)
    /\ pc' = IF TargetReached(episodes') THEN "close" ELSE "reset"
    /\ UNCHANGED <<flags, obs, done, reward, action, tty, envObs, envCalls,
                   prompts, nRead, interrupted, failure, doneCount, shown,
                   envDone>>

\* lines 153-172 without the reset of line 169
RecordKeepsMeanReward ==
    /\ pc = "record"
    /\ \E time_delta \in 1..MaxDelta :
         LET sps == Norm(steps, time_delta) IN
           /\ episodes' = NextEpisodes(episodes)
           /\ mean_sps' = IncMean(mean_sps, sps, episodes')
           /\ spsSum' = RatAdd(spsSum, sps)
    /\ steps' = 0
    /\ stepCalls' = 0
    /\ rewardSum' = Rat(0)
    /\ pc' = IF TargetReached(episodes') THEN "close" ELSE "reset"
    /\ UNCHANGED <<flags, obs, done, reward, action, mean_reward, tty, envObs,
                   envCalls, prompts, nRead, interrupted, failure, doneCount,
                   shown, envDone>>

\* lines 153-172: the episode is recorded and the target is tested
Record ==
    /\ pc = "record"
    /\ \E time_delta \in 1..MaxDelta :
         LET sps == Norm(steps, time_delta) IN
           /\ episodes' = NextEpisodes(episodes)
           /\ mean_sps' = IncMean(mean_sps, sps, episodes')
           /\ spsSum' = RatAdd(spsSum, sps)
    /\ steps' = 0
    /\ mean_reward' = Rat(0)
    /\ stepCalls' = 0
    /\ rewardSum' = Rat(0)
    /\ pc' = IF TargetReached(episodes') THEN "close" ELSE "reset"
    /\ UNCHANGED <<flags, obs, done, reward, action, tty, envObs, envCalls,
                   prompts, nRead, interrupted, failure, doneCount, shown,
                   envDone>>

\* line 160 with time_delta == 0: ZeroDivisionError leaves play()
RecordZeroDelta ==
    /\ pc = "record"
    /\ pc' = "failed"
    /\ failure' = "sps"
    /\ UNCHANGED <<flags, obs, done, reward, action, stats, tty, envObs,
                   envCalls, prompts, nRead, interrupted, stepCalls,
                   doneCount, spsSum, rewardSum, shown, envDone>>

\* env.reset() called twice between episodes
ResetNextTwice ==
    /\ pc = "reset"
    /\ nReset' = nReset + 2
    /\ envObs' = envObs + 2
    /\ pc' = "loop"
    /\ UNCHANGED <<flags, obs, done, reward, action, stats, tty, nStep,
                   nRender, nClose, observers>>

\* line 173: env.reset() between episodes; its result is dropped
ResetNext ==
    /\ pc = "reset"
    /\ nReset' = nReset + 1
    /\ envObs' = envObs + 1
    /\ pc' = "loop"
    /\ UNCHANGED <<flags, obs, done, reward, action, stats, tty, nStep,
                   nRender, nClose, observers>>

\* lines 174-178: env.close() and the summary
Close ==
    /\ pc = "close"
    /\ nClose' = nClose + 1
    /\ pc' = "closed"
    /\ UNCHANGED <<flags, obs, done, reward, action, stats, tty, envObs,
                   nStep, nReset, nRender, observers>>

\* the failing call caught and made again
EnvCallRetried ==
    /\ \/ /\ pc \in {"reset0", "reset"}
          /\ nReset' = nReset + 1 /\ failure' = pc
          /\ UNCHANGED <<nStep, nRender, nClose, stepCalls>>
       \/ /\ pc = "loop" /\ ~no_render /\ ~is_raw_env
          /\ nRender' = nRender + 1 /\ failure' = "render"
          /\ UNCHANGED <<nStep, nReset, nClose, stepCalls>>
       \/ /\ pc = "step"
          /\ nStep' = nStep + 1 /\ stepCalls' = stepCalls + 1
          /\ failure' = "step"
          /\ UNCHANGED <<nReset, nRender, nClose>>
       \/ /\ pc = "close"
          /\ nClose' = nClose + 1 /\ failure' = "close"
          /\ UNCHANGED <<nStep, nReset, nRender, stepCalls>>
    /\ failure = None
    /\ pc' = pc
    /\ UNCHANGED <<flags, obs, done, reward, action, stats, tty, envObs,
                   prompts, nRead, interrupted, doneCount, spsSum, rewardSum,
                   shown, envDone>>

\* a call into the environment raises: nothing in play() catches it
EnvCallRaises ==
    /\ \/ /\ pc \in {"reset0", "reset"}
          /\ nReset' = nReset + 1 /\ failure' = pc
          /\ UNCHANGED <<nStep, nRender, nClose, stepCalls>>
       \/ /\ pc = "loop" /\ ~no_render /\ ~is_raw_env
          /\ nRender' = nRender + 1 /\ failure' = "render"
          /\ UNCHANGED <<nStep, nReset, nClose, stepCalls>>
       \/ /\ pc = "step"
          /\ nStep' = nStep + 1 /\ stepCalls' = stepCalls + 1
          /\ failure' = "step"
          /\ UNCHANGED <<nReset, nRender, nClose>>
       \/ /\ pc = "close"
          /\ nClose' = nClose + 1 /\ failure' = "close"
          /\ UNCHANGED <<nStep, nReset, nRender, stepCalls>>
    /\ pc' = "failed"
    /\ UNCHANGED <<flags, obs, done, reward, action, stats, tty, envObs,
                   prompts, nRead, interrupted, doneCount, spsSum, rewardSum,
                   shown, envDone>>

Next ==
    \/ Reset0 \/ Render \/ GetActionRandom
    \/ SetRaw \/ ReadByte \/ ReadRaises \/ Restore
    \/ ExitCode \/ MapAccept \/ MapReject
    \/ Step \/ Record \/ RecordZeroDelta \/ ResetNext \/ Close
    \/ EnvCallRaises

Spec == Init /\ [][Next]_vars

(* ------------------------------- claims -------------------------------- *)
InGetAction == pc \in {"retry", "read", "restore", "map"}
InLoop == pc \in {"loop", "get_action", "step", "record", "reset"}
             \/ InGetAction

\* C1: with ngames >= 1 and no interrupt read, the loop is left by its own
\* test exactly when episodes == ngames: inside the loop episodes is below
\* ngames, and after the break it equals ngames.
C1_ExactEpisodeCount ==
    ngames >= 1 =>
        /\ InLoop => episodes < ngames
        /\ (pc \in {"close", "closed"} /\ ~interrupted) => episodes = ngames

C1_Witness ==
    pc = "closed" /\ ~interrupted /\ ngames = 2 /\ episodes = 2

\* C2: in human mode, once the interrupt code has been read no env.step,
\* env.reset or env.render call is made and control goes straight to the
\* exit; if it was the first input, no step was ever made and no episode
\* was completed.
C2_InterruptEndsSession ==
    /\ [][interrupted =>
            /\ nStep' = nStep /\ nReset' = nReset /\ nRender' = nRender
            /\ pc' \in {"restore", "map", "close", "closed", "failed"}]_vars
    /\ []((interrupted /\ nRead = 1) => (nStep = 0 /\ episodes = 0))

C2_Witness ==
    pc = "closed" /\ interrupted /\ nRead = 1 /\ mode = "human"

\* C3: however the loop is left (target reached, interrupt, or a failure
\* of env.step / env.reset / env.render inside the loop), env.close() has
\* been called exactly once when the session is over.
C3_CloseOnEveryExit ==
    (pc = "closed" \/ (pc = "failed" /\ failure \in {"step", "reset", "render"}))
        => nClose = 1

\* C4: outside the raw scope of no_echo -- in particular when the session
\* has ended normally, by interrupt or by a failure, the failure of the
\* read included -- the terminal has the mode it had before the session.
C4_TerminalRestored ==
    pc \notin {"read", "restore"} => term = termBefore

C4_Witness ==
    pc = "failed" /\ failure = "read" /\ tt = termBefore

C6_EveryOutsideCodeRetried ==
    /\ [][(pc = "map" /\ ~is_raw_env) =>
            IF InTuple(EnvActions, ch)
              THEN /\ pc' = "step" /\ prompts' = 0
                   /\ action' \in 0..(Len(EnvActions) - 1)
                   /\ EnvActions[action' + 1] = ch
              ELSE /\ pc' = "retry" /\ prompts' = prompts + 1
                   /\ nRead' = nRead /\ action' = action]_vars
    /\ [][pc = "retry" => (pc' = "read" /\ prompts' = prompts)]_vars

\* C6 amended: a code of env._actions resolves to its index; every code
\* outside env._actions other than the exit code is rejected with exactly
\* one retry prompt before the next read; the exit code, which is outside
\* env._actions, prints no retry prompt and ends get_action with None.
C6_IndexOrRetryOrExit ==
    /\ [][(pc = "map" /\ ~is_raw_env) =>
            IF InTuple(EnvActions, ch)
              THEN /\ pc' = "step" /\ prompts' = 0
                   /\ action' \in 0..(Len(EnvActions) - 1)
                   /\ EnvActions[action' + 1] = ch
              ELSE IF ch = CtrlC
                     THEN pc' = "close" /\ action' = None /\ prompts' = 0
                     ELSE /\ pc' = "retry" /\ prompts' = prompts + 1
                          /\ nRead' = nRead /\ action' = action]_vars
    /\ [][pc = "retry" => (pc' = "read" /\ prompts' = prompts)]_vars

C6_Witness ==
    pc = "step" /\ mode = "human" /\ ~is_raw_env /\ action = 0 /\ nStep = 0
        /\ nRead = 2

\* C7: a rejected input changes nothing: from the rejection through any
\* number of further rejections, up to the next accepted input, the step
\* count, the means, the episode count and the calls made to the
\* environment stay as they were, and the next thing done is a read.
C7_RejectChangesNothing ==
    /\ [][(InGetAction /\ pc' \in {"retry", "read", "restore", "map"})
             => UNCHANGED <<stats, envCalls, obs, done, reward, action>>]_vars
    /\ [][pc = "retry" => pc' = "read"]_vars

C7_Witness ==
    pc = "retry" /\ prompts = 2 /\ steps = 1 /\ episodes = 1

\* C8: in the raw variant with max_steps >= 1 the step count never exceeds
\* max_steps, an episode goes on only while steps < max_steps, and an
\* episode the environment did not end itself ends after exactly max_steps
\* env.step calls.
C8_RawStepCap ==
    (is_raw_env /\ max_steps >= 1 /\ pc # "failed") =>
        /\ steps <= max_steps /\ stepCalls <= max_steps
        /\ (pc \in {"loop", "get_action", "step"} \/ InGetAction)
              => steps < max_steps
        /\ (pc = "record" /\ ~envDone)
              => (steps = max_steps /\ stepCalls = max_steps)

C8_Witness ==
    pc = "record" /\ is_raw_env /\ ~envDone /\ max_steps = 2 /\ steps = 2
        /\ episodes = 1

\* C9: the step count is zero when an episode starts and equals, while
\* play() runs, the number of env.step calls of the current episode.
C9_StepCount ==
    /\ [](pc # "failed" => steps = stepCalls)
    /\ [][(pc \in {"reset0", "reset"} /\ pc' = "loop") => steps' = 0]_vars
    /\ [][pc = "record" /\ pc' # "failed" => steps' = 0]_vars

C9_Witness ==
    pc = "loop" /\ steps = 0 /\ episodes = 1 /\ nStep = 2

\* C10: the episode count is the number of episodes that ended with done
\* true (the one being recorded counted once line 163 has run); it changes
\* only there and by one; an interrupt leaves it and mean_sps alone.
C10_EpisodeCount ==
    /\ [](pc \notin {"record", "failed"} => episodes = doneCount)
    /\ [](pc = "record" => doneCount = episodes + 1)
    /\ [][episodes' # episodes
             => (pc = "record" /\ episodes' = episodes + 1)]_vars
    /\ [][interrupted => (episodes' = episodes /\ mean_sps' = mean_sps)]_vars

C10_Witness ==
    pc = "closed" /\ interrupted /\ episodes = 1 /\ steps = 1

\* C11: in the gym variant, after k >= 1 steps of an episode mean_reward is
\* the arithmetic mean of the k rewards env.step returned in that episode
\* (their sum over k), whatever earlier episodes returned.
C11_EpisodeMeanReward ==
    (~is_raw_env /\ steps >= 1) => mean_reward = RatDivInt(rewardSum, steps)

\* rewards 1, 2, 3 in the second episode: mean 2
C11_Witness ==
    /\ ~is_raw_env /\ episodes = 1 /\ steps = 3 /\ rewardSum = Rat(6)
    /\ reward = Rat(3) /\ mean_reward = Rat(2) /\ pc = "record"

\* C12: after n >= 1 completed episodes mean_sps is the arithmetic mean of
\* the n sps values recorded so far (their sum over n).
C12_MeanSps ==
    episodes >= 1 => mean_sps = RatDivInt(spsSum, episodes)

C12_Witness ==
    pc = "closed" /\ episodes = 2 /\ spsSum = Rat(3) /\ mean_sps = <<3, 2>>

C14_ZeroDurationGuarded ==
    ~(pc = "failed" /\ failure = "sps")

\* C15: env.reset() is called once before the first episode and once after
\* each completed episode but the last: while play() runs the number of
\* resets is the number of completed episodes plus one, minus one between
\* line 163 and line 173 and after the episode that reached the target;
\* every env.step comes after the reset of its own episode; resets happen
\* only at lines 95 and 173, never after the target or an interrupt.
C15_ResetPerEpisode ==
    /\ [](pc \notin {"reset0", "failed"} =>
            nReset = IF pc = "reset" \/ (pc \in {"close", "closed"}
                                            /\ ~interrupted)
                       THEN episodes
                       ELSE episodes + 1)
    /\ [](pc = "step" => nReset = doneCount + 1)
    /\ [][nReset' # nReset
             => (pc \in {"reset0", "reset"} /\ nReset' = nReset + 1)]_vars
    /\ [][(interrupted \/ pc \in {"close", "closed"})
             => nReset' = nReset]_vars

C15_Witness ==
    pc = "closed" /\ ~interrupted /\ ngames = 2 /\ episodes = 2 /\ nReset = 2
        /\ nStep >= 2

\* C16: the terminal is raw only between tty.setraw and the restore of one
\* no_echo scope, and that scope holds nothing but the read of one byte: no
\* call into the environment, no prompt, no change of the action or of the
\* statistics happens inside it, the read is its only step before the
\* restore, and bytes are read nowhere else.
C16_RawOnlyAroundOneRead ==
    /\ [](term = "raw" => pc \in {"read", "restore"})
    /\ [][(pc \in {"read", "restore"})
             => UNCHANGED <<envCalls, prompts, action, stats, obs>>]_vars
    /\ [][pc = "read" => pc' = "restore"]_vars
    /\ [][pc = "restore" => (ch' = ch /\ nRead' = nRead /\ term' # "raw")]_vars
    /\ [][nRead' # nRead => (pc = "read" /\ term = "raw")]_vars

C16_Witness ==
    pc = "restore" /\ ~raised /\ term = "raw" /\ ch = 1 /\ nRead = 2

\* C17: a failure raised by env.step, env.reset, env.render or env.close is
\* neither caught nor retried: the failing call leaves play() at once with
\* the terminal not in raw mode, it records no episode (the counters and the
\* means keep their values), and no env call nor any other step of play()
\* follows it.
C17_EnvFailureNotRetried ==
    /\ [](failure \in {"reset0", "reset", "render", "step", "close"}
            => (pc = "failed" /\ term # "raw"))
    /\ [][(failure = None
            /\ failure' \in {"reset0", "reset", "render", "step", "close"})
              => UNCHANGED <<stats, spsSum, doneCount, done, obs>>]_vars
    /\ [][(failure \in {"reset0", "reset", "render", "step", "close"})
              => UNCHANGED <<envCalls, stats, spsSum, pc, term>>]_vars

\* env.step raises in the second episode of a human session, after one step
\* of that episode has been counted
C17_Witness ==
    /\ pc = "failed" /\ failure = "step" /\ mode = "human"
    /\ episodes = 1 /\ steps = 1 /\ stepCalls = 2 /\ nStep >= 3
    /\ nRead = 2 /\ term = termBefore

\* C18: with rendering enabled, every call of get_action is entered by the
\* step that displays the loop's current observation (one env.render call in
\* the gym variant, the prints of obs in the raw variant), so no env.step
\* lies between the display and the request, and what was displayed is still
\* the current observation until the action is stepped; with rendering
\* disabled env.render is never called.
C18_DisplayBeforeRequest ==
    /\ [][(pc' = "get_action")
            => /\ pc = "loop"
               /\ UNCHANGED <<nStep, nReset, obs, envObs>>
               /\ ~no_render =>
                     /\ shown' = <<IF is_raw_env THEN obs ELSE envObs, obs>>
                     /\ nRender' = IF is_raw_env THEN nRender
                                                ELSE nRender + 1]_vars
    /\ []((~no_render /\ (pc \in {"get_action", "step"} \/ InGetAction))
            => shown[2] = obs)
    /\ [][(pc \in {"get_action"} \/ InGetAction)
            => UNCHANGED <<nStep, nReset, nRender, shown>>]_vars
    /\ [](no_render => nRender = 0)

\* the second request of a gym session with rendering: two env.render calls,
\* one env.step, and the observation of that step on display
C18_Witness ==
    /\ ~no_render /\ ~is_raw_env /\ pc = "get_action"
    /\ nStep = 1 /\ nRender = 2 /\ shown = <<2, 2>> /\ obs = 2

\* C19: the step cap is applied in the raw variant only.  In the gym variant
\* done is what env.step returned, so an episode ends exactly when env.step
\* says so, whatever the step count; in the raw variant the episode ends
\* exactly when env.step says so or the step count has reached max_steps.
C19_CapOnlyInRawVariant ==
    /\ [](~is_raw_env => done = envDone)
    /\ [][(pc = "step" /\ pc' # "failed" /\ ~is_raw_env)
            => /\ done' = envDone'
               /\ (pc' = "record") = envDone'
               /\ (pc' = "loop") = ~envDone']_vars
    /\ [][(pc = "step" /\ pc' # "failed" /\ is_raw_env)
            => /\ done' = (envDone' \/ steps' >= max_steps)
               /\ (pc' = "record") = done'
               /\ (pc' = "loop") = ~done']_vars

\* a gym episode that goes on past max_steps because env.step has not said
\* done
C19_Witness ==
    /\ ~is_raw_env /\ pc = "loop" /\ steps > max_steps /\ ~done
    /\ stepCalls = steps /\ ~envDone

\* C20: whenever an action is requested with rendering enabled, the
\* observation on display (the screen and the status line) is the latest one
\* the environment produced, by its most recent env.reset or env.step; at
\* the start of a second or later episode it is the observation of the reset
\* that opened the episode.
C20_LatestObservationShown ==
    (~no_render /\ pc = "get_action") => shown = <<envObs, envObs>>

====
